---- MODULE Spec2Model ----
(***************************************************************************)
(* Model of the technical SEO audit pipeline of the GEO repository:        *)
(* TechnicalAuditService.performAudit and the page audits it starts        *)
(* (src/unnamed/part_001, lines 603-1023).                                 *)
(*                                                                         *)
(* performAudit looks the clinic up, starts auditPage for every requested  *)
(* page at once (Promise.all over pages.map), and, when all page audits    *)
(* have resolved, aggregates the page results, scores them, derives issues *)
(* and recommendations and creates one TechnicalAudit row.  auditPage      *)
(* launches a browser, runs the checks the audit type selects, and closes  *)
(* the browser in a finally block.                                         *)
(*                                                                         *)
(* Further components, each with a specification of its own over the same  *)
(* variables: ClinicController.triggerTechnicalAudit (SpecTrigger), the    *)
(* competitor discovery and the rate limiter of CompetitorAnalysisService  *)
(* (SpecDiscover, SpecRateLimit), the AI shell of src/AIOSPOS.js           *)
(* (SpecShell), WSLAICoordinator (SpecCoordinator) and the dashboard       *)
(* server (SpecDashboard).                                                 *)
(***************************************************************************)
EXTENDS Integers, Sequences, FiniteSets, TLC

(***************************************************************************)
(* Bounds of the model.                                                    *)
(***************************************************************************)
MaxPages == 2

\* the pages of the burst scenario (SpecBurst)
BurstPages == 5

(***************************************************************************)
(* The world the audits run against: three page URLs with fixed signals.   *)
(* A fault (a navigation timeout, a Lighthouse failure) can hit any check  *)
(* of any page; see FaultSets.                                             *)
(***************************************************************************)
UrlHome == "https://a.test/"
UrlServices == "https://a.test/services"
UrlMalformed == "not-a-url"

URLS == {UrlHome, UrlServices, UrlMalformed}

\* the documents auditCrawlability navigates to, lines 868 and 872
UrlRobots == "https://a.test/robots.txt"
UrlSitemap == "https://a.test/sitemap.xml"

\* new URL(url) succeeds / page.goto(url) can navigate
WellFormed(url) == url # UrlMalformed

Site(url) ==
  IF url = UrlHome
  THEN [desktop |-> 60, mobile |-> 100, schemaTypes |-> {"LocalBusiness"},
        hasReview |-> FALSE, robotsStatus |-> 200, sitemapStatus |-> 200,
        viewportMeta |-> TRUE, h1Count |-> 1, malformedBlocks |-> 0]
  ELSE IF url \in {UrlRobots, UrlSitemap}
  THEN [desktop |-> 100, mobile |-> 100, schemaTypes |-> {},
        hasReview |-> FALSE, robotsStatus |-> 200, sitemapStatus |-> 404,
        viewportMeta |-> FALSE, h1Count |-> 0, malformedBlocks |-> 0]
  ELSE [desktop |-> 90, mobile |-> 90, schemaTypes |-> {"FAQPage"},
        hasReview |-> TRUE, robotsStatus |-> 200, sitemapStatus |-> 404,
        viewportMeta |-> FALSE, h1Count |-> 2, malformedBlocks |-> 1]

Clinics == {"clinic-1"}
ClinicIds == {"clinic-1", "clinic-x"}

AuditTypes == {"basic", "comprehensive", "performance", "seo"}

\* a JavaScript number that is undefined (a missing field)
Undefined == -1

(***************************************************************************)
(* The checks of auditPage.                                                *)
(***************************************************************************)
Checks == {"siteSpeed", "seoElements", "schemaMarkup", "crawlability", "mobileOptimization"}

\* the checks pushed when the 'seo' branch also pushes auditCrawlability
ChecksForSeoCrawls(auditType) ==
  (IF auditType \in {"comprehensive", "performance"} THEN {"siteSpeed"} ELSE {})
  \cup (IF auditType \in {"comprehensive", "seo"}
        THEN {"seoElements", "schemaMarkup", "crawlability"} ELSE {})
  \cup (IF auditType = "comprehensive" THEN {"mobileOptimization"} ELSE {})

\* auditPage, lines 715-727: the checks pushed for an audit type
ChecksFor(auditType) ==
  (IF auditType \in {"comprehensive", "performance"} THEN {"siteSpeed"} ELSE {})
  \cup (IF auditType \in {"comprehensive", "seo"} THEN {"seoElements", "schemaMarkup"} ELSE {})
  \cup (IF auditType = "comprehensive" THEN {"crawlability", "mobileOptimization"} ELSE {})

\* The fault scenarios of one page audit: the set of checks whose inspection
\* fails.  A malformed URL fails every check; a well-formed one has no fault,
\* one failing check, or is dead (every check fails).
FaultSets(url, auditType) ==
  IF WellFormed(url)
  THEN {{}} \cup {{c} : c \in ChecksFor(auditType)} \cup {ChecksFor(auditType)}
  ELSE {ChecksFor(auditType)}

NoSiteSpeed == [state |-> "absent", desktop |-> Undefined, mobile |-> Undefined]
NoSeoElements == [state |-> "absent", h1Count |-> Undefined]
NoSchemaMarkup ==
  [state |-> "absent", localBusinessSchema |-> FALSE, dentistSchema |-> FALSE,
   faqSchema |-> FALSE, reviewSchema |-> FALSE, organizationSchema |-> FALSE,
   score |-> Undefined, validationErrors |-> Undefined]
NoCrawlability ==
  [state |-> "absent", score |-> Undefined, robotsTxt |-> FALSE,
   sitemapValid |-> FALSE, crawlErrors |-> Undefined]
NoMobileOptimization ==
  [state |-> "absent", viewportConfiguration |-> FALSE, responsiveDesign |-> FALSE,
   touchTargetSize |-> FALSE, mobileFirstIndex |-> FALSE, score |-> Undefined]

\* results of a page audit before any check has contributed: {}
EmptyResults ==
  [siteSpeed |-> NoSiteSpeed, seoElements |-> NoSeoElements,
   schemaMarkup |-> NoSchemaMarkup, crawlability |-> NoCrawlability,
   mobileOptimization |-> NoMobileOptimization]

(***************************************************************************)
(* The checks.  Each takes the page URL and whether its inspection fails,  *)
(* and yields the object it contributes to the page's results.  A check    *)
(* whose failure escapes it (Rejects) contributes nothing: its promise     *)
(* rejects.                                                                *)
(***************************************************************************)

\* auditPageSpeed, lines 745-797: a Lighthouse failure is caught, siteSpeed: null
auditPageSpeed(url, fails) ==
  IF fails
  THEN [state |-> "null", desktop |-> Undefined, mobile |-> Undefined]
  ELSE [state |-> "value", desktop |-> Site(url).desktop, mobile |-> Site(url).mobile]

\* auditSEOElements, lines 802-821
auditSEOElements(url) == [state |-> "value", h1Count |-> Site(url).h1Count]

\* calculateSchemaScore, lines 954-962
calculateSchemaScore(schemaData) ==
  (IF schemaData.localBusinessSchema THEN 30 ELSE 0)
  + (IF schemaData.dentistSchema THEN 25 ELSE 0)
  + (IF schemaData.faqSchema THEN 20 ELSE 0)
  + (IF schemaData.reviewSchema THEN 15 ELSE 0)
  + (IF schemaData.organizationSchema THEN 10 ELSE 0)

\* the page.evaluate of auditSchemaMarkup, lines 829-847: a JSON-LD block that
\* does not parse becomes null and is filtered out, so the malformed blocks of
\* the page leave no trace in the schema data
SchemaData(url) ==
  LET types == Site(url).schemaTypes IN
  [localBusinessSchema |-> ("LocalBusiness" \in types \/ "DentalClinic" \in types),
   dentistSchema |-> ("Dentist" \in types \/ "DentalClinic" \in types),
   faqSchema |-> ("FAQPage" \in types),
   reviewSchema |-> Site(url).hasReview,
   organizationSchema |-> ("Organization" \in types)]

\* auditSchemaMarkup, lines 826-858
auditSchemaMarkup(url) ==
  LET schemaData == SchemaData(url) IN
  [state |-> "value",
   localBusinessSchema |-> schemaData.localBusinessSchema,
   dentistSchema |-> schemaData.dentistSchema,
   faqSchema |-> schemaData.faqSchema,
   reviewSchema |-> schemaData.reviewSchema,
   organizationSchema |-> schemaData.organizationSchema,
   score |-> calculateSchemaScore(schemaData),
   validationErrors |-> 0]

\* auditCrawlability, lines 863-897: a navigation failure is caught, score 60
auditCrawlability(url, fails) ==
  IF fails
  THEN [state |-> "value", score |-> 60, robotsTxt |-> FALSE,
        sitemapValid |-> FALSE, crawlErrors |-> 1]
  ELSE LET robotsTxt == Site(url).robotsStatus = 200
           sitemapValid == Site(url).sitemapStatus = 200
       IN [state |-> "value",
           score |-> 85 + (IF robotsTxt THEN 10 ELSE 0) + (IF sitemapValid THEN 5 ELSE 0),
           robotsTxt |-> robotsTxt, sitemapValid |-> sitemapValid, crawlErrors |-> 0]

\* page.setViewport({ width: 375, height: 667 }), line 903
MobileViewportWidth == 375

\* auditMobileOptimization scoring 20 for each truthy signal
auditMobileOptimizationBy20(url) ==
  LET viewportConfiguration == Site(url).viewportMeta
      responsiveDesign == MobileViewportWidth <= 768
      truthy == (IF viewportConfiguration THEN 1 ELSE 0)
                + (IF responsiveDesign THEN 1 ELSE 0) + 1 + 1
  IN [state |-> "value",
      viewportConfiguration |-> viewportConfiguration,
      responsiveDesign |-> responsiveDesign,
      touchTargetSize |-> TRUE, mobileFirstIndex |-> TRUE,
      score |-> truthy * 20]

\* auditMobileOptimization, lines 902-926
auditMobileOptimization(url) ==
  LET viewportConfiguration == Site(url).viewportMeta
      responsiveDesign == MobileViewportWidth <= 768
      truthy == (IF viewportConfiguration THEN 1 ELSE 0)
                + (IF responsiveDesign THEN 1 ELSE 0) + 1 + 1
  IN [state |-> "value",
      viewportConfiguration |-> viewportConfiguration,
      responsiveDesign |-> responsiveDesign,
      touchTargetSize |-> TRUE, mobileFirstIndex |-> TRUE,
      score |-> truthy * 25]

\* The checks whose failure is not caught inside the check: auditSEOElements,
\* auditSchemaMarkup and auditMobileOptimization have no try/catch, and
\* auditCrawlability evaluates new URL(url) before its try (line 864).
Rejects(url, check) ==
  \/ check \in {"seoElements", "schemaMarkup", "mobileOptimization"}
  \/ check = "crawlability" /\ ~WellFormed(url)

\* auditPage, lines 729-735: Promise.all over the checks rejects when one of
\* them rejects
ChecksReject(url, faults) == \E c \in faults : Rejects(url, c)

\* auditPage, lines 729-735: the page result, the checks' objects merged
PageResults(url, auditType, faults) ==
  LET run == ChecksFor(auditType) IN
  [siteSpeed |-> IF "siteSpeed" \in run
                 THEN auditPageSpeed(url, "siteSpeed" \in faults) ELSE NoSiteSpeed,
   seoElements |-> IF "seoElements" \in run
                   THEN auditSEOElements(url) ELSE NoSeoElements,
   schemaMarkup |-> IF "schemaMarkup" \in run
                    THEN auditSchemaMarkup(url) ELSE NoSchemaMarkup,
   crawlability |-> IF "crawlability" \in run
                    THEN auditCrawlability(url, "crawlability" \in faults)
                    ELSE NoCrawlability,
   mobileOptimization |-> IF "mobileOptimization" \in run
                          THEN auditMobileOptimization(url) ELSE NoMobileOptimization]

\* what a rejected page audit leaves in Promise.all's result list: nothing
NoAudit == [url |-> "", results |-> EmptyResults]

(***************************************************************************)
(* Aggregation helpers, lines 929-1022.                                    *)
(***************************************************************************)

\* x || 0
OrZero(x) == IF x = Undefined THEN 0 ELSE x

\* x < t, false when x is undefined
Below(x, t) == x # Undefined /\ x < t

\* Math.round of sum / n for non-negative sum
Round(sum, n) == (2 * sum + n) \div (2 * n)

\* aggregateAuditResults, lines 929-940: the first page's results only
aggregateAuditResults(audits) ==
  LET firstPage == IF Len(audits) > 0 THEN audits[1].results ELSE EmptyResults IN
  [siteSpeed |-> [desktop |-> [score |-> firstPage.siteSpeed.desktop],
                  mobile |-> [score |-> firstPage.siteSpeed.mobile]],
   crawlability |-> firstPage.crawlability,
   schemaMarkup |-> firstPage.schemaMarkup,
   mobileOptimization |-> firstPage.mobileOptimization]

\* calculateOverallScore without the division by scores.length
calculateOverallScoreSum(metrics) ==
  OrZero(metrics.siteSpeed.desktop.score)
  + OrZero(metrics.siteSpeed.mobile.score)
  + OrZero(metrics.crawlability.score)
  + OrZero(metrics.schemaMarkup.score)
  + OrZero(metrics.mobileOptimization.score)

\* calculateOverallScore, lines 942-952
calculateOverallScore(metrics) ==
  Round(OrZero(metrics.siteSpeed.desktop.score)
        + OrZero(metrics.siteSpeed.mobile.score)
        + OrZero(metrics.crawlability.score)
        + OrZero(metrics.schemaMarkup.score)
        + OrZero(metrics.mobileOptimization.score), 5)

\* identifyIssues with the schema issue pushed before the performance issue
identifyIssuesSchemaFirst(metrics) ==
  (IF ~metrics.schemaMarkup.localBusinessSchema
   THEN << [severity |-> "medium", category |-> "schema",
            title |-> "Missing LocalBusiness schema",
            affectedPages |-> <<"Homepage">>] >>
   ELSE << >>)
  \o
  (IF Below(metrics.siteSpeed.desktop.score, 70)
   THEN << [severity |-> "high", category |-> "performance",
            title |-> "Poor desktop performance",
            affectedPages |-> <<"All pages">>] >>
   ELSE << >>)

\* identifyIssues, lines 964-992
identifyIssues(metrics) ==
  (IF Below(metrics.siteSpeed.desktop.score, 70)
   THEN << [severity |-> "high", category |-> "performance",
            title |-> "Poor desktop performance",
            affectedPages |-> <<"All pages">>] >>
   ELSE << >>)
  \o
  (IF ~metrics.schemaMarkup.localBusinessSchema
   THEN << [severity |-> "medium", category |-> "schema",
            title |-> "Missing LocalBusiness schema",
            affectedPages |-> <<"Homepage">>] >>
   ELSE << >>)

\* generateRecommendations, lines 994-1022
generateRecommendations(metrics, issues) ==
  (IF Below(metrics.siteSpeed.mobile.score, 60)
   THEN << [priority |-> "high", category |-> "performance",
            title |-> "Improve mobile page speed"] >>
   ELSE << >>)
  \o
  (IF Below(metrics.schemaMarkup.score, 80)
   THEN << [priority |-> "medium", category |-> "schema",
            title |-> "Enhance schema markup"] >>
   ELSE << >>)

\* performAudit, lines 656-671: the TechnicalAudit row created from the page audits
AuditRecord(opts, audits) ==
  LET aggregatedMetrics == aggregateAuditResults(audits)
      overallScore == calculateOverallScore(aggregatedMetrics)
      issues == identifyIssues(aggregatedMetrics)
      recommendations == generateRecommendations(aggregatedMetrics, issues)
  IN [clinicId |-> opts.clinicId, auditType |-> opts.auditType,
      score |-> overallScore, metrics |-> aggregatedMetrics,
      issues |-> issues, recommendations |-> recommendations,
      rawData |-> audits]


VARIABLES runPc, options, runError, pagePc, browser, errored, attempts,
          pageAudits, records, settleOrder, checkPc, document, evaluated,
          jobQueue, httpLog,
          competitorRows, discoveryCache, discoverPc, discoverList, discoverIndex,
          redisCount, redisTtl, redisWindow, ratePc, rateCurrent, rateWindow,
          granted, metricUpdates,
          heap, contexts, currentContext, contextsFile, shellClock, typed, loadPending,
          taskQueue, coordPc, currentTask, taskResult, agentLog, executedTasks,
          enqueuedTasks,
          socketState, intervals, emitted

\* the state of the checks of one page audit and of the puppeteer page they share
checkVars == <<checkPc, document, evaluated>>

\* the state of TechnicalAuditService's audit runs
auditVars == <<runPc, options, runError, pagePc, browser, errored, attempts,
               pageAudits, records, settleOrder, checkVars>>

\* the job queue behind queueAudit and the replies of ClinicController
triggerVars == <<jobQueue, httpLog>>

\* the state of the components other than the audit runs
\* the competitors table, the discovery cache and the discoverCompetitors calls
competitorVars == <<competitorRows, discoveryCache, discoverPc, discoverList,
                    discoverIndex>>

\* the concurrent callers of discoverCompetitors
Callers == {"call-1", "call-2"}

\* the Redis counter of one rate-limit key, the updateCompetitorMetrics calls
\* on it, and what they were allowed and did in each window of the key
rateVars == <<redisCount, redisTtl, redisWindow, ratePc, rateCurrent, rateWindow,
              granted, metricUpdates>>

\* the windows of the rate-limit key the model follows
MaxWindows == 2

\* the AI shell: its AIContext objects, the contexts map (name to object),
\* the current context (an object, 0 for null), contexts.json, the clock, the
\* number of commands typed, and whether the constructor's load is pending
shellVars == <<heap, contexts, currentContext, contextsFile, shellClock, typed,
               loadPending>>

\* the context names the user types
ContextNames == {"alpha", "beta"}

\* if (this.history.length > 50), src/AIOSPOS.js line 30
HistoryLimit == 50

\* contexts.json does not exist
NoFile == [exists |-> FALSE, data |-> [n \in ContextNames |-> <<>>], names |-> {}]

\* WSLAICoordinator: its task queue, where start/processTasks stands, the task
\* in execution and its result, the agents' logs, and the tasks in the order
\* they were queued and in the order they were executed
coordVars == <<taskQueue, coordPc, currentTask, taskResult, agentLog, executedTasks,
               enqueuedTasks>>

\* the agents of initializeAgents, src/unnamed/part_005 lines 425-430
Agents == {"system", "ai", "file", "code"}

\* no task is in execution
NoTask == [agent |-> "none", type |-> "none", categories |-> "none"]

\* the dashboard server: the sockets of its clients, the sockets whose metrics
\* timer is active, and the metrics messages emitted to each socket
dashboardVars == <<socketState, intervals, emitted>>

\* the connections the model follows
MaxSockets == 3

SocketIds == 1 .. MaxSockets

otherVars == <<triggerVars, competitorVars, rateVars, shellVars, coordVars,
               dashboardVars>>

vars == <<auditVars, otherVars>>

\* the AI shell constructed where no contexts.json exists
ShellIdle ==
  /\ heap = <<>>
  /\ contexts = [n \in ContextNames |-> 0]
  /\ currentContext = 0
  /\ contextsFile = NoFile
  /\ shellClock = HistoryLimit
  /\ typed = 0
  /\ loadPending = FALSE

\* the controller, the competitor service and the rate limiter before any call
ServicesIdle ==
  /\ jobQueue = <<>>
  /\ httpLog = <<>>
  /\ competitorRows = <<>>
  /\ discoveryCache = {}
  /\ discoverPc = [p \in Callers |-> "idle"]
  /\ discoverList = [p \in Callers |-> <<>>]
  /\ discoverIndex = [p \in Callers |-> 1]
  /\ redisCount = 0
  /\ redisTtl = "none"
  /\ redisWindow = 1
  /\ ratePc = [p \in Callers |-> "idle"]
  /\ rateCurrent = [p \in Callers |-> 0]
  /\ rateWindow = [p \in Callers |-> 1]
  /\ granted = [w \in 1 .. MaxWindows |-> 0]
  /\ metricUpdates = [w \in 1 .. MaxWindows |-> 0]

\* new WSLAICoordinator(), src/unnamed/part_005 lines 417-423
CoordinatorIdle ==
  /\ taskQueue = <<>>
  /\ coordPc = "new"
  /\ currentTask = NoTask
  /\ taskResult = "none"
  /\ agentLog = [a \in Agents |-> <<>>]
  /\ executedTasks = <<>>
  /\ enqueuedTasks = <<>>

\* the dashboard server listening, no client connected yet
DashboardIdle ==
  /\ socketState = [x \in SocketIds |-> "unused"]
  /\ intervals = {}
  /\ emitted = [x \in SocketIds |-> 0]

\* the components other than the audit runs, before any request reached them
OtherIdle ==
  /\ ServicesIdle
  /\ ShellIdle
  /\ CoordinatorIdle
  /\ DashboardIdle

\* the document of a page that has not navigated yet
BlankDocument == "about:blank"

\* no audit run has started
AuditIdle ==
  /\ runPc = "idle"
  /\ options = [clinicId |-> "clinic-1", auditType |-> "basic", pages |-> <<>>]
  /\ runError = "none"
  /\ pagePc = <<>>
  /\ browser = <<>>
  /\ errored = <<>>
  /\ attempts = <<>>
  /\ pageAudits = <<>>
  /\ records = <<>>
  /\ settleOrder = <<>>
  /\ checkPc = [c \in Checks |-> "idle"]
  /\ document = BlankDocument
  /\ evaluated = [c \in Checks |-> "none"]

Init ==
  /\ AuditIdle
  /\ OtherIdle

\* the indices of the page audits the run has started
Pages == DOMAIN pagePc

\* sequences over S of length at most n
SeqsUpTo(S, n) == UNION {[1 .. k -> S] : k \in 0 .. n}

\* the browser at the end of auditPage if the finally block were missing
BrowserAfterAuditPageNoFinally(rejects) == IF rejects THEN "open" ELSE "closed"

\* auditPage, lines 737-739: finally { await browser.close() }
BrowserAfterAuditPage(rejects) == "closed"

(***************************************************************************)
(* performAudit, lines 638-692.                                            *)
(***************************************************************************)

\* a caller invokes performAudit(opts)
PerformAuditWith(opts) ==
  /\ runPc = "idle"
  /\ options' = opts
  /\ runPc' = "findClinic"
  /\ UNCHANGED <<runError, pagePc, browser, errored, attempts, pageAudits, records>>
  /\ UNCHANGED <<settleOrder, checkVars>>
  /\ UNCHANGED otherVars

\* a caller invokes performAudit with any request of at most MaxPages pages
PerformAudit ==
  \E clinicId \in ClinicIds, auditType \in AuditTypes,
     pages \in SeqsUpTo(URLS, MaxPages) :
    PerformAuditWith([clinicId |-> clinicId, auditType |-> auditType, pages |-> pages])

\* lines 646-649: Clinic.findByPk finds no clinic
ClinicNotFound ==
  /\ runPc = "findClinic"
  /\ options.clinicId \notin Clinics
  /\ runPc' = "failed"
  /\ runError' = "Clinic not found"
  /\ UNCHANGED <<options, pagePc, browser, errored, attempts, pageAudits, records>>
  /\ UNCHANGED <<settleOrder, checkVars>>
  /\ UNCHANGED otherVars

\* lines 652-654 and 698: options.pages.map calls auditPage for every page, and
\* each call runs up to its first await, puppeteer.launch
StartPageAudits ==
  /\ runPc = "findClinic"
  /\ options.clinicId \in Clinics
  /\ runPc' = "awaitPages"
  /\ pagePc' = [i \in 1 .. Len(options.pages) |-> "launching"]
  /\ browser' = [i \in 1 .. Len(options.pages) |-> "none"]
  /\ errored' = [i \in 1 .. Len(options.pages) |-> {}]
  /\ attempts' = [i \in 1 .. Len(options.pages) |-> 1]
  /\ pageAudits' = [i \in 1 .. Len(options.pages) |-> NoAudit]
  /\ settleOrder' = <<>>
  /\ UNCHANGED <<options, runError, records>>
  /\ UNCHANGED <<checkVars>>
  /\ UNCHANGED otherVars

(***************************************************************************)
(* auditPage, lines 697-740, for the page at index i.                      *)
(***************************************************************************)

\* lines 698-701: puppeteer.launch resolves, the browser is open and the
\* checks are started
LaunchBrowser(i) ==
  /\ pagePc[i] = "launching"
  /\ pagePc' = [pagePc EXCEPT ![i] = "auditing"]
  /\ browser' = [browser EXCEPT ![i] = "open"]
  /\ UNCHANGED <<runPc, options, runError, errored, attempts, pageAudits, records>>
  /\ UNCHANGED <<settleOrder, checkVars>>
  /\ UNCHANGED otherVars

\* lines 698-701: puppeteer.launch rejects; no browser exists, auditPage rejects
LaunchFails(i) ==
  /\ pagePc[i] = "launching"
  /\ pagePc' = [pagePc EXCEPT ![i] = "rejected"]
  /\ settleOrder' = Append(settleOrder, i)
  /\ UNCHANGED <<runPc, options, runError, browser, errored, attempts, pageAudits, records>>
  /\ UNCHANGED <<checkVars>>
  /\ UNCHANGED otherVars

\* lines 712-735: the checks settle, with the checks in faults failing
ChecksSettle(i) ==
  /\ pagePc[i] = "auditing"
  /\ \E faults \in FaultSets(options.pages[i], options.auditType) :
       /\ errored' = [errored EXCEPT ![i] = faults]
       /\ pageAudits' =
            [pageAudits EXCEPT ![i] =
               IF ChecksReject(options.pages[i], faults)
               THEN NoAudit
               ELSE [url |-> options.pages[i],
                     results |-> PageResults(options.pages[i], options.auditType, faults)]]
  /\ pagePc' = [pagePc EXCEPT ![i] = "closing"]
  /\ UNCHANGED <<runPc, options, runError, browser, attempts, records>>
  /\ UNCHANGED <<settleOrder, checkVars>>
  /\ UNCHANGED otherVars

\* lines 737-739: the finally block has run; auditPage returns or rethrows
AuditPageEnds(i) ==
  /\ pagePc[i] = "closing"
  /\ LET rejects == ChecksReject(options.pages[i], errored[i]) IN
       /\ browser' = [browser EXCEPT ![i] = BrowserAfterAuditPage(rejects)]
       /\ pagePc' = [pagePc EXCEPT ![i] = IF rejects THEN "rejected" ELSE "resolved"]
  /\ settleOrder' = Append(settleOrder, i)
  /\ UNCHANGED <<runPc, options, runError, errored, attempts, pageAudits, records>>
  /\ UNCHANGED <<checkVars>>
  /\ UNCHANGED otherVars

\* lines 652-654 and 685-691: Promise.all rejects as soon as one page audit has
\* rejected; the catch block logs and rethrows
PageAuditsReject ==
  /\ runPc = "awaitPages"
  /\ \E i \in Pages : pagePc[i] = "rejected"
  /\ runPc' = "failed"
  /\ runError' = "Page audit failed"
  /\ UNCHANGED <<options, pagePc, browser, errored, attempts, pageAudits, records>>
  /\ UNCHANGED <<settleOrder, checkVars>>
  /\ UNCHANGED otherVars

\* the value of Promise.all if it listed the results in the order in which the
\* page audits settled
ResultsInSettleOrder(audits, order) == [k \in DOMAIN order |-> audits[order[k]]]

\* lines 652-654: the value of Promise.all lists the results of the page audits
\* in the order of options.pages, whatever the order in which they settled
PromiseAllResults(audits, order) == audits

\* the table after an upsert keyed by clinic: the clinic's row is overwritten
UpsertRecord(table, row) ==
  IF \E k \in DOMAIN table : table[k].clinicId = row.clinicId
  THEN LET k == CHOOSE j \in DOMAIN table : table[j].clinicId = row.clinicId
       IN [table EXCEPT ![k] = row]
  ELSE Append(table, row)

\* lines 663-671: TechnicalAudit.create inserts a new row
CreateRecord(table, row) == Append(table, row)

\* lines 656-683: every page audit has resolved; the results are aggregated and
\* the TechnicalAudit row is created
AggregateAndSave ==
  /\ runPc = "awaitPages"
  /\ \A i \in Pages : pagePc[i] = "resolved"
  /\ records' = CreateRecord(records,
                              AuditRecord(options, PromiseAllResults(pageAudits, settleOrder)))
  /\ runPc' = "done"
  /\ UNCHANGED <<options, runError, pagePc, browser, errored, attempts, pageAudits>>
  /\ UNCHANGED <<settleOrder, checkVars>>
  /\ UNCHANGED otherVars

Next ==
  \/ PerformAudit
  \/ ClinicNotFound
  \/ StartPageAudits
  \/ \E i \in Pages : LaunchBrowser(i)
  \/ \E i \in Pages : LaunchFails(i)
  \/ \E i \in Pages : ChecksSettle(i)
  \/ \E i \in Pages : AuditPageEnds(i)
  \/ PageAuditsReject
  \/ AggregateAndSave

Spec == Init /\ [][Next]_vars

(***************************************************************************)
(* The burst scenario: performAudit has been called for clinic-1 with      *)
(* BurstPages distinct well-formed page URLs.                              *)
(***************************************************************************)
BurstUrls ==
  <<UrlHome, UrlServices, "https://a.test/about", "https://a.test/team",
    "https://a.test/contact", "https://a.test/blog">>

InitBurst ==
  /\ runPc = "findClinic"
  /\ \E auditType \in {"basic", "performance"} :
       options = [clinicId |-> "clinic-1", auditType |-> auditType,
                  pages |-> SubSeq(BurstUrls, 1, BurstPages)]
  /\ runError = "none"
  /\ pagePc = <<>>
  /\ browser = <<>>
  /\ errored = <<>>
  /\ attempts = <<>>
  /\ pageAudits = <<>>
  /\ records = <<>>
  /\ settleOrder = <<>>
  /\ checkPc = [c \in Checks |-> "idle"]
  /\ document = BlankDocument
  /\ evaluated = [c \in Checks |-> "none"]
  /\ OtherIdle

NextBurst ==
  \/ StartPageAudits
  \/ \E i \in Pages : LaunchBrowser(i)
  \/ \E i \in Pages : LaunchFails(i)
  \/ \E i \in Pages : ChecksSettle(i)
  \/ \E i \in Pages : AuditPageEnds(i)
  \/ PageAuditsReject
  \/ AggregateAndSave

SpecBurst == InitBurst /\ [][NextBurst]_vars

(***************************************************************************)
(* One page audit with its checks step by step.  auditPage starts the      *)
(* checks of the audit type on the one puppeteer page it created (lines    *)
(* 704-727); each check then navigates that page and evaluates in it at    *)
(* its own pace, and Promise.all (line 729) fulfils when all checks have   *)
(* fulfilled and rejects as soon as one has rejected.                      *)
(***************************************************************************)
runVars == <<runPc, options, runError, attempts, records, settleOrder>>

\* the checks that navigate to the page and evaluate in it
EvaluatingChecks == {"seoElements", "schemaMarkup", "mobileOptimization"}

\* a check that has fulfilled; auditCrawlability also fulfils from its catch
\* block, after its robots.txt or its sitemap.xml navigation failed
FulfilledPcs == {"fulfilled", "caughtRobots", "caughtSitemap"}

SettledPcs == FulfilledPcs \cup {"rejected"}

\* where a check stands when its call returns its promise: at its first await
FirstAwait(url, c) ==
  CASE c = "siteSpeed" -> "lighthouse"
    [] c \in {"seoElements", "schemaMarkup"} -> "goto"
    [] c = "crawlability" -> IF WellFormed(url) THEN "gotoRobots" ELSE "rejected"
    [] c = "mobileOptimization" -> "setViewport"

\* auditPage, lines 729-735, with every evaluating check reading the document
\* it found in the page when it evaluated
PageResultsSeen(url, auditType, faults, seen) ==
  LET run == ChecksFor(auditType) IN
  [siteSpeed |-> IF "siteSpeed" \in run
                 THEN auditPageSpeed(url, "siteSpeed" \in faults) ELSE NoSiteSpeed,
   seoElements |-> IF "seoElements" \in run
                   THEN auditSEOElements(seen["seoElements"]) ELSE NoSeoElements,
   schemaMarkup |-> IF "schemaMarkup" \in run
                    THEN auditSchemaMarkup(seen["schemaMarkup"]) ELSE NoSchemaMarkup,
   crawlability |-> IF "crawlability" \in run
                    THEN auditCrawlability(url, "crawlability" \in faults)
                    ELSE NoCrawlability,
   mobileOptimization |-> IF "mobileOptimization" \in run
                          THEN auditMobileOptimization(seen["mobileOptimization"])
                          ELSE NoMobileOptimization]

\* auditPage has been called for one page, by performAudit for a known clinic
InitPage ==
  /\ runPc = "awaitPages"
  /\ \E auditType \in AuditTypes, url \in URLS :
       options = [clinicId |-> "clinic-1", auditType |-> auditType, pages |-> <<url>>]
  /\ runError = "none"
  /\ pagePc = <<"launching">>
  /\ browser = <<"none">>
  /\ errored = <<{}>>
  /\ attempts = <<1>>
  /\ pageAudits = <<NoAudit>>
  /\ records = <<>>
  /\ settleOrder = <<>>
  /\ checkPc = [c \in Checks |-> "idle"]
  /\ document = BlankDocument
  /\ evaluated = [c \in Checks |-> "none"]
  /\ OtherIdle

\* lines 713-727: the checks of the audit type are called, each runs up to its
\* first await
StartChecks ==
  /\ pagePc[1] = "auditing"
  /\ ChecksFor(options.auditType) # {}
  /\ \A c \in Checks : checkPc[c] = "idle"
  /\ checkPc' = [c \in Checks |->
                   IF c \in ChecksFor(options.auditType)
                   THEN FirstAwait(options.pages[1], c) ELSE "idle"]
  /\ errored' = [errored EXCEPT ![1] =
                   {c \in ChecksFor(options.auditType) :
                      FirstAwait(options.pages[1], c) = "rejected"}]
  /\ UNCHANGED <<runVars, pagePc, browser, pageAudits, document, evaluated>>
  /\ UNCHANGED otherVars

\* auditPageSpeed, lines 745-797: the two Lighthouse runs end; a failure is
\* caught and the check fulfils with siteSpeed: null
LighthouseEnds ==
  /\ checkPc["siteSpeed"] = "lighthouse"
  /\ \E fails \in BOOLEAN :
       /\ ~WellFormed(options.pages[1]) => fails
       /\ errored' = [errored EXCEPT ![1] = IF fails THEN @ \cup {"siteSpeed"} ELSE @]
  /\ checkPc' = [checkPc EXCEPT !["siteSpeed"] = "fulfilled"]
  /\ UNCHANGED <<runVars, pagePc, browser, pageAudits, document, evaluated>>
  /\ UNCHANGED otherVars

\* auditMobileOptimization, line 903: page.setViewport resolves
SetViewport ==
  /\ browser[1] = "open"
  /\ checkPc["mobileOptimization"] = "setViewport"
  /\ checkPc' = [checkPc EXCEPT !["mobileOptimization"] = "goto"]
  /\ UNCHANGED <<runVars, pagePc, browser, errored, pageAudits, document, evaluated>>
  /\ UNCHANGED otherVars

\* lines 803, 827, 904: the page.goto(url) of check c resolves, the page shows url
Goto(c) ==
  /\ browser[1] = "open"
  /\ checkPc[c] = "goto"
  /\ WellFormed(options.pages[1])
  /\ document' = options.pages[1]
  /\ checkPc' = [checkPc EXCEPT ![c] = "evaluate"]
  /\ UNCHANGED <<runVars, pagePc, browser, errored, pageAudits, evaluated>>
  /\ UNCHANGED otherVars

\* lines 803, 827, 904: the page.goto(url) of check c throws; the check has no
\* try/catch and rejects
GotoFails(c) ==
  /\ browser[1] = "open"
  /\ checkPc[c] = "goto"
  /\ checkPc' = [checkPc EXCEPT ![c] = "rejected"]
  /\ errored' = [errored EXCEPT ![1] = @ \cup {c}]
  /\ UNCHANGED <<runVars, pagePc, browser, pageAudits, document, evaluated>>
  /\ UNCHANGED otherVars

\* lines 805, 829, 906: the page.evaluate of check c runs in the document the
\* page shows now
Evaluate(c) ==
  /\ browser[1] = "open"
  /\ checkPc[c] = "evaluate"
  /\ evaluated' = [evaluated EXCEPT ![c] = document]
  /\ checkPc' = [checkPc EXCEPT ![c] = "fulfilled"]
  /\ UNCHANGED <<runVars, pagePc, browser, errored, pageAudits, document>>
  /\ UNCHANGED otherVars

\* auditCrawlability, lines 868-869: page.goto(robots.txt) resolves
GotoRobots ==
  /\ browser[1] = "open"
  /\ checkPc["crawlability"] = "gotoRobots"
  /\ document' = UrlRobots
  /\ checkPc' = [checkPc EXCEPT !["crawlability"] = "gotoSitemap"]
  /\ UNCHANGED <<runVars, pagePc, browser, errored, pageAudits, evaluated>>
  /\ UNCHANGED otherVars

\* auditCrawlability, lines 868 and 885-896: page.goto(robots.txt) throws, the
\* catch block returns the fallback result
GotoRobotsFails ==
  /\ browser[1] = "open"
  /\ checkPc["crawlability"] = "gotoRobots"
  /\ checkPc' = [checkPc EXCEPT !["crawlability"] = "caughtRobots"]
  /\ errored' = [errored EXCEPT ![1] = @ \cup {"crawlability"}]
  /\ UNCHANGED <<runVars, pagePc, browser, pageAudits, document, evaluated>>
  /\ UNCHANGED otherVars

\* auditCrawlability, lines 872-884: page.goto(sitemap.xml) resolves, the check
\* returns its result
GotoSitemap ==
  /\ browser[1] = "open"
  /\ checkPc["crawlability"] = "gotoSitemap"
  /\ document' = UrlSitemap
  /\ checkPc' = [checkPc EXCEPT !["crawlability"] = "fulfilled"]
  /\ UNCHANGED <<runVars, pagePc, browser, errored, pageAudits, evaluated>>
  /\ UNCHANGED otherVars

\* auditCrawlability, lines 872 and 885-896: page.goto(sitemap.xml) throws, the
\* catch block returns the fallback result
GotoSitemapFails ==
  /\ browser[1] = "open"
  /\ checkPc["crawlability"] = "gotoSitemap"
  /\ checkPc' = [checkPc EXCEPT !["crawlability"] = "caughtSitemap"]
  /\ errored' = [errored EXCEPT ![1] = @ \cup {"crawlability"}]
  /\ UNCHANGED <<runVars, pagePc, browser, pageAudits, document, evaluated>>
  /\ UNCHANGED otherVars

\* a check still using the page after browser.close(): its pending call throws
BrowserGone(c) ==
  /\ browser[1] = "closed"
  /\ checkPc[c] \in {"setViewport", "goto", "evaluate", "gotoRobots", "gotoSitemap"}
  /\ checkPc' = [checkPc EXCEPT ![c] =
                   CASE checkPc[c] = "gotoRobots" -> "caughtRobots"
                     [] checkPc[c] = "gotoSitemap" -> "caughtSitemap"
                     [] OTHER -> "rejected"]
  /\ errored' = [errored EXCEPT ![1] = @ \cup {c}]
  /\ UNCHANGED <<runVars, pagePc, browser, pageAudits, document, evaluated>>
  /\ UNCHANGED otherVars

\* lines 729-735: every check has fulfilled, Promise.all fulfils and auditPage
\* builds its result
ChecksFulfil ==
  /\ pagePc[1] = "auditing"
  /\ ChecksFor(options.auditType) = {} \/ \E c \in Checks : checkPc[c] # "idle"
  /\ \A c \in ChecksFor(options.auditType) : checkPc[c] \in FulfilledPcs
  /\ pageAudits' =
       [pageAudits EXCEPT ![1] =
          [url |-> options.pages[1],
           results |-> PageResultsSeen(options.pages[1], options.auditType,
                                       errored[1], evaluated)]]
  /\ pagePc' = [pagePc EXCEPT ![1] = "closing"]
  /\ UNCHANGED <<runVars, browser, errored, checkVars>>
  /\ UNCHANGED otherVars

\* line 729: a check has rejected, Promise.all rejects at once and auditPage
\* goes on to its finally block
ChecksRejectEarly ==
  /\ pagePc[1] = "auditing"
  /\ \E c \in Checks : checkPc[c] = "rejected"
  /\ pagePc' = [pagePc EXCEPT ![1] = "closing"]
  /\ UNCHANGED <<runVars, browser, errored, pageAudits, checkVars>>
  /\ UNCHANGED otherVars

NextPage ==
  \/ LaunchBrowser(1)
  \/ LaunchFails(1)
  \/ StartChecks
  \/ LighthouseEnds
  \/ SetViewport
  \/ \E c \in EvaluatingChecks : Goto(c)
  \/ \E c \in EvaluatingChecks : GotoFails(c)
  \/ \E c \in EvaluatingChecks : Evaluate(c)
  \/ GotoRobots
  \/ GotoRobotsFails
  \/ GotoSitemap
  \/ GotoSitemapFails
  \/ \E c \in Checks : BrowserGone(c)
  \/ ChecksFulfil
  \/ ChecksRejectEarly
  \/ AuditPageEnds(1)

SpecPage == InitPage /\ [][NextPage]_vars

(***************************************************************************)
(* ClinicController.triggerTechnicalAudit (src/unnamed/part_010, lines     *)
(* 565-598) and TechnicalAuditService.queueAudit (lines 614-633).  The     *)
(* controller takes auditType and pages from the request body, looks the   *)
(* clinic up and queues one job; every request ends in a reply or in       *)
(* next(error).                                                            *)
(***************************************************************************)
MaxRequests == 2

\* `https://${clinic.domain}`, line 584; the clinic's domain is a.test
HomepageOf(id) == "https://a.test"

\* req.body.pages: not sent, null, or an array of page URLs
BodyPages ==
  {[kind |-> "absent", items |-> <<>>], [kind |-> "null", items |-> <<>>]}
  \cup {[kind |-> "array", items |-> q] : q \in SeqsUpTo({UrlHome, UrlServices}, 2)}

\* req.body.auditType: not sent, or a string
BodyAuditTypes == {"absent", "comprehensive", "seo"}

\* const { auditType = 'comprehensive', pages = [] } = req.body, line 569
DestructuredAuditType(sent) == IF sent = "absent" THEN "comprehensive" ELSE sent

DestructuredPages(sent) == IF sent.kind = "absent" THEN <<>> ELSE sent.items

\* the pages of the job when the controller passes pages on as they are
PagesAsSent(id, pages) == pages

\* pages.length > 0 ? pages : [`https://${clinic.domain}`], line 584
PagesOrHomepage(id, pages) == IF Len(pages) > 0 THEN pages ELSE <<HomepageOf(id)>>

\* queueAudit, lines 615-618: the job data
JobData(opts) ==
  [clinicId |-> opts.clinicId, auditType |-> opts.auditType, pages |-> opts.pages,
   priority |-> IF opts.auditType = "comprehensive" THEN "high" ELSE "medium"]

\* triggerTechnicalAudit for one request
TriggerTechnicalAudit ==
  /\ Len(httpLog) < MaxRequests
  /\ \E id \in ClinicIds, sentType \in BodyAuditTypes, sentPages \in BodyPages :
       LET request == [id |-> id, auditType |-> sentType, pages |-> sentPages]
           auditType == DestructuredAuditType(sentType)
           pages == DestructuredPages(sentPages)
       IN IF id \notin Clinics
          THEN /\ httpLog' = Append(httpLog, [request |-> request,
                                             outcome |-> "NotFoundError", jobId |-> 0])
               /\ UNCHANGED jobQueue
          ELSE IF sentPages.kind = "null"
          THEN /\ httpLog' = Append(httpLog, [request |-> request,
                                             outcome |-> "TypeError", jobId |-> 0])
               /\ UNCHANGED jobQueue
          ELSE /\ jobQueue' = Append(jobQueue,
                                    JobData([clinicId |-> id, auditType |-> auditType,
                                             pages |-> PagesOrHomepage(id, pages)]))
               /\ httpLog' = Append(httpLog, [request |-> request, outcome |-> "queued",
                                             jobId |-> Len(jobQueue) + 1])
  /\ UNCHANGED <<auditVars, competitorVars, rateVars, shellVars, coordVars, dashboardVars>>

NextTrigger == TriggerTechnicalAudit

SpecTrigger == Init /\ [][NextTrigger]_vars

(***************************************************************************)
(* CompetitorAnalysisService.discoverCompetitors and                       *)
(* saveDiscoveredCompetitors (lines 140-199 and 440-478), for the calls of *)
(* one clinic.  The competitors table has no unique index on (clinic_id,   *)
(* domain) (src/generate-database.sh, lines 59-72 and 464-623).            *)
(***************************************************************************)
MaxCompetitors == 2

CompetitorDomains == {"rival-a.test", "rival-b.test", "rival-c.test"}

\* the lists deduplicateCompetitors and slice(0, maxCompetitors) can yield
DiscoveredLists ==
  {q \in SeqsUpTo(CompetitorDomains, MaxCompetitors) :
     \A a, b \in DOMAIN q : a # b => q[a] # q[b]}

\* after competitor number i of the list: the next one, or the cache write
AfterCompetitor(p, i) ==
  /\ discoverIndex' = [discoverIndex EXCEPT ![p] = i + 1]
  /\ discoverPc' = [discoverPc EXCEPT ![p] =
                      IF i + 1 <= Len(discoverList[p]) THEN "findOne" ELSE "setCache"]

\* lines 141-176: the cache is read; on a miss the competitors are discovered,
\* deduplicated and limited, and saveDiscoveredCompetitors starts
DiscoverCompetitors(p) ==
  /\ discoverPc[p] = "idle"
  /\ \E q \in DiscoveredLists :
       /\ discoverList' = [discoverList EXCEPT ![p] = q]
       /\ discoverIndex' = [discoverIndex EXCEPT ![p] = 1]
       /\ discoverPc' = [discoverPc EXCEPT ![p] =
                           IF q \in discoveryCache THEN "done"
                           ELSE IF Len(q) > 0 THEN "findOne" ELSE "setCache"]
  /\ UNCHANGED <<competitorRows, discoveryCache, auditVars, triggerVars, rateVars, shellVars, coordVars, dashboardVars>>

\* the rows Competitor.findOne({ where: { clinicId, domain } }) can return
RowsOf(domain) ==
  {k \in DOMAIN competitorRows : competitorRows[k].domain = domain}

\* lines 446-450 and 468: Competitor.findOne resolves; an existing competitor
\* is pushed, a missing one is created next
FindOne(p) ==
  /\ discoverPc[p] = "findOne"
  /\ IF RowsOf(discoverList[p][discoverIndex[p]]) # {}
     THEN AfterCompetitor(p, discoverIndex[p])
     ELSE /\ discoverPc' = [discoverPc EXCEPT ![p] = "create"]
          /\ UNCHANGED discoverIndex
  /\ UNCHANGED <<competitorRows, discoveryCache, discoverList, auditVars, triggerVars, rateVars, shellVars, coordVars, dashboardVars>>

\* lines 452-466: the table after Competitor.create
CreateCompetitor(domain, position) ==
  Append(competitorRows, [clinicId |-> "clinic-1", domain |-> domain,
                          marketPosition |-> position])

\* lines 452-468: Competitor.create resolves and the competitor is pushed
Create(p) ==
  /\ discoverPc[p] = "create"
  /\ competitorRows' = CreateCompetitor(discoverList[p][discoverIndex[p]], discoverIndex[p])
  /\ AfterCompetitor(p, discoverIndex[p])
  /\ UNCHANGED <<discoveryCache, discoverList, auditVars, triggerVars, rateVars, shellVars, coordVars, dashboardVars>>

\* lines 469-474: Competitor.create throws, the error is logged and the loop
\* goes on
CreateFails(p) ==
  /\ discoverPc[p] = "create"
  /\ AfterCompetitor(p, discoverIndex[p])
  /\ UNCHANGED <<competitorRows, discoveryCache, discoverList, auditVars, triggerVars, rateVars, shellVars, coordVars, dashboardVars>>

\* lines 184-192: the saved competitors are cached and returned
SetCache(p) ==
  /\ discoverPc[p] = "setCache"
  /\ discoveryCache' = discoveryCache \cup {discoverList[p]}
  /\ discoverPc' = [discoverPc EXCEPT ![p] = "done"]
  /\ UNCHANGED <<competitorRows, discoverList, discoverIndex, auditVars, triggerVars, rateVars, shellVars, coordVars, dashboardVars>>

NextDiscover ==
  \/ \E p \in Callers : DiscoverCompetitors(p)
  \/ \E p \in Callers : FindOne(p)
  \/ \E p \in Callers : Create(p)
  \/ \E p \in Callers : CreateFails(p)
  \/ \E p \in Callers : SetCache(p)

SpecDiscover == Init /\ [][NextDiscover]_vars

(***************************************************************************)
(* BaseService.checkRateLimit (lines 62-68) as updateCompetitorMetrics     *)
(* calls it (lines 268-321) for one competitor domain: one Redis key,      *)
(* limit 10, window 3600 seconds.  INCR and EXPIRE are separate awaits;    *)
(* the key expires once its time to live, set by EXPIRE, has run out.      *)
(***************************************************************************)
\* checkRateLimit(rateLimitKey, 10, 3600), line 276
RateLimit == 10

\* the calls on the key in one window
MaxCalls == 11

\* current <= limit with the limit itself not counted
WithinLimitOffByOne(current, limit) == current <= limit + 1

\* return current <= limit, line 67
WithinLimit(current, limit) == current <= limit

\* lines 269-276 and 63: the competitor is found and redis.incr(key) resolves
Incr(p) ==
  /\ ratePc[p] = "idle"
  /\ redisCount < MaxCalls
  /\ redisCount' = redisCount + 1
  /\ rateCurrent' = [rateCurrent EXCEPT ![p] = redisCount + 1]
  /\ rateWindow' = [rateWindow EXCEPT ![p] = redisWindow]
  /\ ratePc' = [ratePc EXCEPT ![p] = IF redisCount + 1 = 1 THEN "expire" ELSE "return"]
  /\ UNCHANGED <<redisTtl, redisWindow, granted, metricUpdates>>
  /\ UNCHANGED <<auditVars, triggerVars, competitorVars, shellVars, coordVars, dashboardVars>>

\* lines 64-66: redis.expire(key, window) resolves
Expire(p) ==
  /\ ratePc[p] = "expire"
  /\ redisTtl' = IF redisCount > 0 THEN "set" ELSE redisTtl
  /\ ratePc' = [ratePc EXCEPT ![p] = "return"]
  /\ UNCHANGED <<redisCount, redisWindow, rateCurrent, rateWindow, granted, metricUpdates>>
  /\ UNCHANGED <<auditVars, triggerVars, competitorVars, shellVars, coordVars, dashboardVars>>

\* the call of p has ended: its locals are gone
CallEnds(p) ==
  /\ ratePc' = [ratePc EXCEPT ![p] = "idle"]
  /\ rateCurrent' = [rateCurrent EXCEPT ![p] = 0]
  /\ rateWindow' = [rateWindow EXCEPT ![p] = 1]

\* lines 67 and 277-280: checkRateLimit returns; updateCompetitorMetrics goes
\* on when it may update and returns when it may not
CheckRateLimitReturns(p) ==
  /\ ratePc[p] = "return"
  /\ IF WithinLimit(rateCurrent[p], RateLimit)
     THEN /\ granted' = [granted EXCEPT ![rateWindow[p]] = @ + 1]
          /\ ratePc' = [ratePc EXCEPT ![p] = "update"]
          /\ UNCHANGED <<rateCurrent, rateWindow>>
     ELSE /\ CallEnds(p)
          /\ UNCHANGED granted
  /\ UNCHANGED <<redisCount, redisTtl, redisWindow, metricUpdates>>
  /\ UNCHANGED <<auditVars, triggerVars, competitorVars, shellVars, coordVars, dashboardVars>>

\* lines 288-320: the metrics are fetched and competitor.updateMetrics is
\* called; the call ends.  An update that throws performs no update and ends
\* the call alike, so every call that may update is counted as an update.
UpdateMetrics(p) ==
  /\ ratePc[p] = "update"
  /\ metricUpdates' = [metricUpdates EXCEPT ![rateWindow[p]] = @ + 1]
  /\ CallEnds(p)
  /\ UNCHANGED <<redisCount, redisTtl, redisWindow, granted>>
  /\ UNCHANGED <<auditVars, triggerVars, competitorVars, shellVars, coordVars, dashboardVars>>

\* the time to live of the key has run out: Redis deletes the key
KeyExpires ==
  /\ redisTtl = "set"
  /\ redisWindow < MaxWindows
  /\ redisCount' = 0
  /\ redisTtl' = "none"
  /\ redisWindow' = redisWindow + 1
  /\ UNCHANGED <<ratePc, rateCurrent, rateWindow, granted, metricUpdates>>
  /\ UNCHANGED <<auditVars, triggerVars, competitorVars, shellVars, coordVars, dashboardVars>>

NextRateLimit ==
  \/ \E p \in Callers : Incr(p)
  \/ \E p \in Callers : Expire(p)
  \/ \E p \in Callers : CheckRateLimitReturns(p)
  \/ \E p \in Callers : UpdateMetrics(p)
  \/ KeyExpires

SpecRateLimit == Init /\ [][NextRateLimit]_vars

(***************************************************************************)
(* The AI shell of src/AIOSPOS.js: AIContext (lines 14-73) and AIShell     *)
(* (lines 75-480).  AIContext objects live in a heap and are named by      *)
(* their index, so that two objects with the same name are told apart.  A  *)
(* history entry is its timestamp; history is what the object holds, log   *)
(* is every entry ever added to it.                                        *)
(***************************************************************************)
MaxCommands == 5

\* the history an earlier session saved after n tracked commands
SavedHistory(n) == [k \in 1 .. n |-> k]

\* history.slice(0, n)
KeepFirst(h, n) == IF Len(h) > n THEN SubSeq(h, 1, n) ELSE h

\* if (history.length > 50) history = history.slice(-50), lines 30-32
KeepLast(h, n) == IF Len(h) > n THEN SubSeq(h, Len(h) - n + 1, Len(h)) ELSE h

\* AIContext.addToHistory, lines 25-33
addToHistory(context, timestamp) ==
  [context EXCEPT !.history = KeepLast(Append(@, timestamp), HistoryLimit),
                  !.log = Append(@, timestamp)]

\* new AIContext(name, description), lines 15-23
NewContext(name) == [name |-> name, history |-> <<>>, log |-> <<>>]

\* AIContext.deserialize, lines 64-72
deserialize(name, history) == [name |-> name, history |-> history, log |-> history]

\* processCommand, lines 144-147, and executeSystemCommand, lines 169-171:
\* the command is added to the history of the current context, if there is one
Tracked(h, current, timestamp) ==
  IF current = 0 THEN h ELSE [h EXCEPT ![current] = addToHistory(@, timestamp)]

\* what every command does besides its own effect: the clock goes on and the
\* command counts as typed
CommandTyped ==
  /\ typed < MaxCommands
  /\ typed' = typed + 1
  /\ shellClock' = shellClock + 1

\* the contexts.json files a session can find: none, or the file an earlier
\* session saved with context alpha after no, 49 or 50 tracked commands
FilesFound ==
  {NoFile}
  \cup {[exists |-> TRUE, names |-> {"alpha"},
         data |-> [n \in ContextNames |->
                     IF n = "alpha" THEN SavedHistory(k) ELSE <<>>]] :
          k \in {0, HistoryLimit - 1, HistoryLimit}}

\* new AIShell(): no context yet, loadContexts() called and not awaited
InitShell ==
  /\ AuditIdle
  /\ ServicesIdle
  /\ heap = <<>>
  /\ contexts = [n \in ContextNames |-> 0]
  /\ currentContext = 0
  /\ contextsFile \in FilesFound
  /\ shellClock = HistoryLimit
  /\ typed = 0
  /\ loadPending = TRUE
  /\ CoordinatorIdle
  /\ DashboardIdle

\* the names of the file in the order of Object.entries
RECURSIVE FileOrder(_)
FileOrder(names) ==
  IF names = {} THEN <<>>
  ELSE LET n == IF "alpha" \in names THEN "alpha" ELSE CHOOSE x \in names : TRUE
       IN <<n>> \o FileOrder(names \ {n})

\* loadContexts, lines 449-452: the heap with one new object for each context
\* of the file
HeapAfterLoad(h, file) ==
  LET order == FileOrder(file.names) IN
  h \o [k \in 1 .. Len(order) |-> deserialize(order[k], file.data[order[k]])]

\* loadContexts, lines 449-452: the map cleared and filled with the new objects
ContextsAfterLoad(h, file) ==
  LET order == FileOrder(file.names) IN
  [n \in ContextNames |->
     IF n \in file.names
     THEN Len(h) + (CHOOSE k \in 1 .. Len(order) : order[k] = n)
     ELSE 0]

\* the loadContexts() of the constructor settles (line 87)
ConstructorLoadSettles ==
  /\ loadPending
  /\ loadPending' = FALSE
  /\ IF contextsFile.exists
     THEN /\ heap' = HeapAfterLoad(heap, contextsFile)
          /\ contexts' = ContextsAfterLoad(heap, contextsFile)
     ELSE UNCHANGED <<heap, contexts>>
  /\ UNCHANGED <<currentContext, contextsFile, shellClock, typed>>
  /\ UNCHANGED <<auditVars, triggerVars, competitorVars, rateVars, coordVars, dashboardVars>>

\* the command `create <name>`: createContext, lines 231-250, which switches
\* to the new context, then the tracking of processCommand
CreateContext(name) ==
  /\ CommandTyped
  /\ IF contexts[name] # 0
     THEN /\ heap' = Tracked(heap, currentContext, shellClock + 1)
          /\ UNCHANGED <<contexts, currentContext>>
     ELSE /\ contexts' = [contexts EXCEPT ![name] = Len(heap) + 1]
          /\ currentContext' = Len(heap) + 1
          /\ heap' = Tracked(Append(heap, NewContext(name)), Len(heap) + 1,
                              shellClock + 1)
  /\ UNCHANGED <<contextsFile, loadPending>>
  /\ UNCHANGED <<auditVars, triggerVars, competitorVars, rateVars, coordVars, dashboardVars>>

\* the command `switch <name>`: switchContext, lines 252-281
SwitchContext(name) ==
  /\ CommandTyped
  /\ currentContext' = IF contexts[name] # 0 THEN contexts[name] ELSE currentContext
  /\ heap' = Tracked(heap, currentContext', shellClock + 1)
  /\ UNCHANGED <<contexts, contextsFile, loadPending>>
  /\ UNCHANGED <<auditVars, triggerVars, competitorVars, rateVars, coordVars, dashboardVars>>

\* the command `delete <name>`: deleteContext, lines 283-302
DeleteContext(name) ==
  /\ CommandTyped
  /\ contexts' = [contexts EXCEPT ![name] = 0]
  /\ currentContext' =
       IF contexts[name] # 0 /\ currentContext # 0 /\ heap[currentContext].name = name
       THEN 0 ELSE currentContext
  /\ heap' = Tracked(heap, currentContext', shellClock + 1)
  /\ UNCHANGED <<contextsFile, loadPending>>
  /\ UNCHANGED <<auditVars, triggerVars, competitorVars, rateVars, coordVars, dashboardVars>>

\* saveContexts, lines 431-434: every context of the map serialized under its name
Serialized ==
  [exists |-> TRUE,
   names |-> {n \in ContextNames : contexts[n] # 0},
   data |-> [n \in ContextNames |->
               IF contexts[n] # 0 THEN heap[contexts[n]].history ELSE <<>>]]

\* the command `save`: saveContexts, lines 429-442
SaveContexts ==
  /\ CommandTyped
  /\ contextsFile' = Serialized
  /\ heap' = Tracked(heap, currentContext, shellClock + 1)
  /\ UNCHANGED <<contexts, currentContext, loadPending>>
  /\ UNCHANGED <<auditVars, triggerVars, competitorVars, rateVars, coordVars, dashboardVars>>

\* the command `load`: loadContexts, lines 444-460; without a file the map is
\* left as it is
LoadContexts ==
  /\ CommandTyped
  /\ IF contextsFile.exists
     THEN /\ heap' = Tracked(HeapAfterLoad(heap, contextsFile), currentContext,
                              shellClock + 1)
          /\ contexts' = ContextsAfterLoad(heap, contextsFile)
     ELSE /\ heap' = Tracked(heap, currentContext, shellClock + 1)
          /\ UNCHANGED contexts
  /\ UNCHANGED <<currentContext, contextsFile, loadPending>>
  /\ UNCHANGED <<auditVars, triggerVars, competitorVars, rateVars, coordVars, dashboardVars>>

\* any other command, of the shell (lines 140-147) or of the system (lines
\* 160-173): it only enters the history
OtherCommand ==
  /\ CommandTyped
  /\ heap' = Tracked(heap, currentContext, shellClock + 1)
  /\ UNCHANGED <<contexts, currentContext, contextsFile, loadPending>>
  /\ UNCHANGED <<auditVars, triggerVars, competitorVars, rateVars, coordVars, dashboardVars>>

NextShell ==
  \/ OtherCommand
  \/ ConstructorLoadSettles
  \/ \E name \in ContextNames : CreateContext(name)
  \/ \E name \in ContextNames : SwitchContext(name)
  \/ \E name \in ContextNames : DeleteContext(name)
  \/ SaveContexts
  \/ LoadContexts

SpecShell == InitShell /\ [][NextShell]_vars

(***************************************************************************)
(* WSLAICoordinator.start, queueTask, processTasks and handleResult        *)
(* (src/unnamed/part_005, lines 432-472) with WSLAIAgent.executeTask       *)
(* (lines 93-105).                                                         *)
(***************************************************************************)
\* the tasks start queues, lines 437-439
BootstrapTasks ==
  << [agent |-> "system", type |-> "wsl_setup", categories |-> "none"],
     [agent |-> "ai", type |-> "install_ollama", categories |-> "none"],
     [agent |-> "file", type |-> "categorize_files", categories |-> "none"] >>

\* what processTask can resolve with: installOllamaWSL catches its error and
\* resolves with { success: false } (line 176), categorizeMarkdownFiles
\* resolves with the categories it found
Resolutions(type) ==
  CASE type = "install_ollama" -> {"installed", "notInstalled"}
    [] type = "categorize_files" -> {"categories", "noCategories"}
    [] OTHER -> {"ok"}

\* the task taken when the queue is read from its end: taskQueue.pop()
TakeLast(queue) == [task |-> queue[Len(queue)], rest |-> SubSeq(queue, 1, Len(queue) - 1)]

\* taskQueue.shift(), line 451
Shift(queue) == [task |-> Head(queue), rest |-> Tail(queue)]

\* start, lines 432-441: the bootstrap tasks are queued, processTasks is called
Start ==
  /\ coordPc = "new"
  /\ taskQueue' = taskQueue \o BootstrapTasks
  /\ enqueuedTasks' = enqueuedTasks \o BootstrapTasks
  /\ coordPc' = "loop"
  /\ UNCHANGED <<currentTask, taskResult, agentLog, executedTasks>>
  /\ UNCHANGED <<auditVars, triggerVars, competitorVars, rateVars, shellVars, dashboardVars>>

\* lines 450-455: the loop takes the next task and calls agent.executeTask
TakeTask ==
  /\ coordPc = "loop"
  /\ Len(taskQueue) > 0
  /\ currentTask' = Shift(taskQueue).task
  /\ taskQueue' = Shift(taskQueue).rest
  /\ executedTasks' = Append(executedTasks, Shift(taskQueue).task)
  /\ coordPc' = "executing"
  /\ UNCHANGED <<taskResult, agentLog, enqueuedTasks>>
  /\ UNCHANGED <<auditVars, triggerVars, competitorVars, rateVars, shellVars, dashboardVars>>

\* executeTask, lines 96-99: processTask resolves, the agent logs the success
TaskResolves ==
  /\ coordPc = "executing"
  /\ \E result \in Resolutions(currentTask.type) :
       /\ taskResult' = result
       /\ agentLog' = [agentLog EXCEPT ![currentTask.agent] =
                         Append(@, [type |-> currentTask.type, status |-> "success"])]
  /\ coordPc' = "handleResult"
  /\ UNCHANGED <<taskQueue, currentTask, executedTasks, enqueuedTasks>>
  /\ UNCHANGED <<auditVars, triggerVars, competitorVars, rateVars, shellVars, dashboardVars>>

\* executeTask, lines 100-104: processTask rejects, the agent logs the failure
\* and rethrows
TaskRejects ==
  /\ coordPc = "executing"
  /\ agentLog' = [agentLog EXCEPT ![currentTask.agent] =
                    Append(@, [type |-> currentTask.type, status |-> "failed"])]
  /\ coordPc' = "caught"
  /\ UNCHANGED <<taskQueue, currentTask, taskResult, executedTasks, enqueuedTasks>>
  /\ UNCHANGED <<auditVars, triggerVars, competitorVars, rateVars, shellVars, dashboardVars>>

\* processTasks, lines 457-459: the loop catches the error and goes on
LoopCatches ==
  /\ coordPc = "caught"
  /\ currentTask' = NoTask
  /\ coordPc' = "loop"
  /\ UNCHANGED <<taskQueue, taskResult, agentLog, executedTasks, enqueuedTasks>>
  /\ UNCHANGED <<auditVars, triggerVars, competitorVars, rateVars, shellVars, dashboardVars>>

\* handleResult, lines 463-472: the result of categorize_files queues the
\* creation of the contexts
HandleResult ==
  /\ coordPc = "handleResult"
  /\ LET queued == IF currentTask.type = "categorize_files"
                    THEN << [agent |-> "code", type |-> "create_contexts",
                             categories |-> taskResult] >>
                    ELSE << >>
     IN /\ taskQueue' = taskQueue \o queued
        /\ enqueuedTasks' = enqueuedTasks \o queued
  /\ currentTask' = NoTask
  /\ taskResult' = "none"
  /\ coordPc' = "loop"
  /\ UNCHANGED <<agentLog, executedTasks>>
  /\ UNCHANGED <<auditVars, triggerVars, competitorVars, rateVars, shellVars, dashboardVars>>

\* line 450: the queue is empty, processTasks returns
ProcessTasksReturns ==
  /\ coordPc = "loop"
  /\ Len(taskQueue) = 0
  /\ coordPc' = "done"
  /\ UNCHANGED <<taskQueue, currentTask, taskResult, agentLog, executedTasks,
                 enqueuedTasks>>
  /\ UNCHANGED <<auditVars, triggerVars, competitorVars, rateVars, shellVars, dashboardVars>>

NextCoordinator ==
  \/ Start
  \/ TakeTask
  \/ TaskResolves
  \/ TaskRejects
  \/ LoopCatches
  \/ HandleResult
  \/ ProcessTasksReturns

\* every awaited task settles and the loop goes on
SpecCoordinator == Init /\ [][NextCoordinator]_vars /\ WF_vars(NextCoordinator)

(***************************************************************************)
(* The dashboard server, src/dashboard/server.js lines 69-84 (the same     *)
(* handler is in src/build-platform.sh, lines 396-411): each connection    *)
(* gets the metrics at once and from a timer of its own, which its         *)
(* disconnect handler clears.                                              *)
(***************************************************************************)
\* the metrics messages one socket gets in the model
MaxEmits == 3

\* the active timers when the disconnect handler clears nothing
KeepInterval(timers, x) == timers

\* clearInterval(interval), line 82
ClearInterval(timers, x) == timers \ {x}

\* lines 69-79: a client connects; metrics are emitted and the timer is set
Connection(x) ==
  /\ socketState[x] = "unused"
  /\ socketState' = [socketState EXCEPT ![x] = "connected"]
  /\ emitted' = [emitted EXCEPT ![x] = 1]
  /\ intervals' = intervals \cup {x}
  /\ UNCHANGED <<auditVars, triggerVars, competitorVars, rateVars, shellVars, coordVars>>

\* lines 76-78: the timer of a socket fires
IntervalFires(x) ==
  /\ x \in intervals
  /\ emitted[x] < MaxEmits
  /\ emitted' = [emitted EXCEPT ![x] = @ + 1]
  /\ UNCHANGED <<socketState, intervals>>
  /\ UNCHANGED <<auditVars, triggerVars, competitorVars, rateVars, shellVars, coordVars>>

\* lines 80-83: the client disconnects
Disconnect(x) ==
  /\ socketState[x] = "connected"
  /\ socketState' = [socketState EXCEPT ![x] = "disconnected"]
  /\ intervals' = ClearInterval(intervals, x)
  /\ UNCHANGED emitted
  /\ UNCHANGED <<auditVars, triggerVars, competitorVars, rateVars, shellVars, coordVars>>

NextDashboard ==
  \/ \E x \in SocketIds : Connection(x)
  \/ \E x \in SocketIds : IntervalFires(x)
  \/ \E x \in SocketIds : Disconnect(x)

SpecDashboard == Init /\ [][NextDashboard]_vars

(***************************************************************************)
(* The audit history: performAudit is called again and again, each call    *)
(* after the previous run and its page audits have ended, until the table  *)
(* holds MaxRecords rows.                                                  *)
(***************************************************************************)
MaxRecords == 2

HistoryRequests ==
  {[clinicId |-> "clinic-1", auditType |-> "comprehensive", pages |-> <<UrlHome>>],
   [clinicId |-> "clinic-1", auditType |-> "performance", pages |-> <<UrlServices>>],
   [clinicId |-> "clinic-1", auditType |-> "basic", pages |-> <<>>],
   [clinicId |-> "clinic-x", auditType |-> "seo", pages |-> <<UrlHome>>]}

PerformAuditAgain == \E opts \in HistoryRequests : PerformAuditWith(opts)

\* performAudit has returned or thrown and its page audits have ended: the
\* service is ready for the next call
RunEnds ==
  /\ runPc \in {"done", "failed"}
  /\ \A i \in Pages : pagePc[i] \in {"resolved", "rejected"}
  /\ Len(records) < MaxRecords
  /\ runPc' = "idle"
  /\ runError' = "none"
  /\ pagePc' = <<>>
  /\ browser' = <<>>
  /\ errored' = <<>>
  /\ attempts' = <<>>
  /\ pageAudits' = <<>>
  /\ settleOrder' = <<>>
  /\ UNCHANGED <<options, records, checkVars>>
  /\ UNCHANGED otherVars

NextHistory ==
  \/ PerformAuditAgain
  \/ RunEnds
  \/ ClinicNotFound
  \/ StartPageAudits
  \/ \E i \in Pages : LaunchBrowser(i)
  \/ \E i \in Pages : LaunchFails(i)
  \/ \E i \in Pages : ChecksSettle(i)
  \/ \E i \in Pages : AuditPageEnds(i)
  \/ PageAuditsReject
  \/ AggregateAndSave

SpecHistory == Init /\ [][NextHistory]_vars

(***************************************************************************)
(* Notions the claims use.                                                 *)
(***************************************************************************)

\* the concurrency ceiling the specification gives runAudit by default
DefaultConcurrency == 4

\* the request passes the specification's input validation
ValidRequest(opts) ==
  /\ opts.pages # <<>>
  /\ \A i \in DOMAIN opts.pages : WellFormed(opts.pages[i])

Finished(i) == pagePc[i] \in {"resolved", "rejected"}

\* puppeteer.launch rejected for page i
LaunchFailed(i) == pagePc[i] = "rejected" /\ browser[i] = "none"

OpenSessions == {i \in Pages : browser[i] = "open"}

\* the checks that navigate the page with page.goto
NavigatingChecks == {"seoElements", "schemaMarkup", "crawlability", "mobileOptimization"}

\* every navigation of page i timed out
NavigationTimedOut(i) ==
  LET nav == ChecksFor(options.auditType) \cap NavigatingChecks IN
  /\ WellFormed(options.pages[i])
  /\ nav # {}
  /\ nav \subseteq errored[i]

\* the checks of a page result that produced a usable result
UsableChecks(pageAudit) == {c \in Checks : pageAudit.results[c].state = "value"}

\* the scored categories of a page result that produced a usable result
ScoredCategories(pageAudit) == UsableChecks(pageAudit) \ {"seoElements"}

\* twice the score of a category of a page result (the performance score is the
\* mean of the desktop and the mobile score)
CategoryScore2(pageAudit, c) ==
  IF c = "siteSpeed"
  THEN pageAudit.results.siteSpeed.desktop + pageAudit.results.siteSpeed.mobile
  ELSE 2 * pageAudit.results[c].score

RECURSIVE SumOver(_, _, _)
SumOver(S, F(_), acc) ==
  IF S = {} THEN acc
  ELSE LET x == CHOOSE y \in S : TRUE IN SumOver(S \ {x}, F, acc + F(x))

\* 24 times the composite score of a page result: the mean of the scores of
\* its usable scored categories
Composite24(pageAudit) ==
  LET cats == ScoredCategories(pageAudit)
      Score2(c) == CategoryScore2(pageAudit, c)
  IN (12 \div Cardinality(cats)) * SumOver(cats, Score2, 0)

Abs(x) == IF x < 0 THEN -x ELSE x

\* the page of a record fails the check an issue is about
FailsCheck(pageAudit, issue) ==
  IF issue.category = "performance"
  THEN /\ pageAudit.results.siteSpeed.state = "value"
       /\ pageAudit.results.siteSpeed.desktop < 70
  ELSE /\ pageAudit.results.schemaMarkup.state = "value"
       /\ ~pageAudit.results.schemaMarkup.localBusinessSchema

Range(f) == {f[i] : i \in DOMAIN f}

(***************************************************************************)
(* The claims.                                                             *)
(***************************************************************************)

\* C1: when the audit of a page of a valid request throws as a whole because a
\* check of it threw (the page is unreachable), and every browser launched,
\* performAudit does not fail.
C1_PageFailureContained ==
  (/\ ValidRequest(options)
   /\ \A i \in Pages : ~LaunchFailed(i)
   /\ \E i \in Pages : pagePc[i] = "rejected" /\ errored[i] # {})
    => runPc # "failed"

\* C2: a finished page audit in which exactly one check errored has returned a
\* result that holds the results of the other checks and a composite score, the
\* mean of their scores.
C2_OneCheckErrorContained ==
  \A i \in Pages :
    (Finished(i) /\ Cardinality(errored[i]) = 1) =>
      /\ pagePc[i] = "resolved"
      /\ (ChecksFor(options.auditType) \ errored[i]) \subseteq UsableChecks(pageAudits[i])
      /\ IF "compositeScore" \in DOMAIN pageAudits[i]
         THEN 24 * pageAudits[i].compositeScore = Composite24(pageAudits[i])
         ELSE ScoredCategories(pageAudits[i]) = {}

\* C3: the number of simultaneously open browser sessions never exceeds the
\* concurrency ceiling (default 4).
C3_BoundedSessions == Cardinality(OpenSessions) <= DefaultConcurrency

\* C4: once a page audit has finished, on whichever exit path, its browser
\* session is not open; so when performAudit and all its page audits have
\* finished no session remains open.
C4_SessionsClosed == \A i \in Pages : Finished(i) => browser[i] # "open"

\* C4 witness: performAudit has failed because a check threw in a page audit,
\* every page audit has finished, and the throwing page had opened a browser.
C4_Witness ==
  /\ runPc = "failed"
  /\ \A i \in Pages : Finished(i)
  /\ \E i \in Pages : errored[i] # {} /\ pagePc[i] = "rejected" /\ browser[i] = "closed"
  /\ \E i \in Pages : pagePc[i] = "resolved" /\ browser[i] = "closed"

\* C5: the score of an audit record is the mean (rounded to an integer) of the
\* composite scores of its auditable pages.
C5_ScoreIsMeanOfAuditablePages ==
  \A k \in DOMAIN records :
    LET r == records[k]
        aud == {i \in DOMAIN r.rawData : ScoredCategories(r.rawData[i]) # {}}
        Comp(i) == Composite24(r.rawData[i])
    IN aud # {} =>
         Abs(24 * Cardinality(aud) * r.score - SumOver(aud, Comp, 0))
           <= 12 * Cardinality(aud)

\* C6: a request with an empty page list or a malformed page URL launches no
\* browser, creates no audit record and does not complete.
C6_InvalidRequestRejected ==
  (runPc # "idle" /\ ~ValidRequest(options)) =>
    /\ Pages = {}
    /\ records = <<>>
    /\ runPc # "done"

\* C7: a page whose every navigation timed out has been attempted exactly
\* twice when its audit has finished, and has been turned into a page result.
C7_RetriedOnce ==
  \A i \in Pages :
    (Finished(i) /\ NavigationTimedOut(i)) =>
      /\ attempts[i] = 2
      /\ pagePc[i] = "resolved"

\* C8: a run in which no page produced a usable check result does not complete
\* and creates no audit record.
C8_NoRecordWithoutAuditablePage ==
  /\ \A k \in DOMAIN records :
       \E i \in DOMAIN records[k].rawData : UsableChecks(records[k].rawData[i]) # {}
  /\ runPc = "done" => \E i \in Pages : UsableChecks(pageAudits[i]) # {}

\* C9: the issues of an audit record are unique by (category, title), and the
\* affected pages of each are the URLs of the audited pages that failed its check.
C9_IssuesDeduplicated ==
  \A k \in DOMAIN records :
    LET r == records[k] IN
    /\ \A a, b \in DOMAIN r.issues :
         (r.issues[a].category = r.issues[b].category
          /\ r.issues[a].title = r.issues[b].title) => a = b
    /\ \A a \in DOMAIN r.issues :
         Range(r.issues[a].affectedPages)
           = {r.rawData[i].url : i \in {j \in DOMAIN r.rawData :
                                          FailsCheck(r.rawData[j], r.issues[a])}}

\* C11: a step creates an audit record only by completing a run, a completing
\* run adds exactly one record, and every step leaves the records stored
\* before it unchanged and in place.
C11_HistoryOnlyGrows ==
  [][/\ Len(records') >= Len(records)
     /\ SubSeq(records', 1, Len(records)) = records
     /\ (runPc' = "done" /\ runPc # "done") => Len(records') = Len(records) + 1
     /\ Len(records') > Len(records) => (runPc' = "done" /\ runPc # "done")]_vars

\* C11 witness: two runs for the same clinic have completed and their two
\* different records are both stored.
C11_Witness ==
  /\ Len(records) = 2
  /\ records[1].clinicId = records[2].clinicId
  /\ records[1] # records[2]
  /\ runPc = "done"

\* C15: when a run has completed, the raw page results of its record are one
\* per requested page, in request order, each carrying the URL of its page.
C15_RawDataInRequestOrder ==
  runPc = "done" =>
    LET rawData == records[Len(records)].rawData IN
    /\ Len(rawData) = Len(options.pages)
    /\ \A i \in DOMAIN rawData : rawData[i].url = options.pages[i]

\* C15 witness: a run over two different pages has completed although the
\* second page audit settled before the first.
C15_Witness ==
  /\ runPc = "done"
  /\ Len(options.pages) = 2
  /\ options.pages[1] # options.pages[2]
  /\ settleOrder = <<2, 1>>

(***************************************************************************)
(* Notions of the claims about issues, recommendations and check scores.   *)
(***************************************************************************)

\* the issue category of a scored check
IssueCategory(c) ==
  CASE c = "siteSpeed" -> "performance"
    [] c = "crawlability" -> "crawlability"
    [] c = "schemaMarkup" -> "schema"
    [] c = "mobileOptimization" -> "mobile"

IssueCategories == {"performance", "crawlability", "schema", "mobile"}

\* the score under which a category's check yields an issue
Threshold(c) ==
  CASE c = "siteSpeed" -> 70
    [] c = "crawlability" -> 80
    [] c = "schemaMarkup" -> 60
    [] c = "mobileOptimization" -> 75

\* the check c of a page result has a score below its threshold
BelowThreshold(pageAudit, c) ==
  /\ c \in ScoredCategories(pageAudit)
  /\ CategoryScore2(pageAudit, c) < 2 * Threshold(c)

SeverityRank(severity) ==
  CASE severity = "critical" -> 1
    [] severity = "high" -> 2
    [] severity = "medium" -> 3
    [] severity = "low" -> 4

\* the alphabetical position of an issue category
CategoryRank(category) ==
  CASE category = "crawlability" -> 1
    [] category = "mobile" -> 2
    [] category = "performance" -> 3
    [] category = "schema" -> 4

\* issue x may stand before issue y in an ordered issue list
MayPrecede(x, y) ==
  \/ SeverityRank(x.severity) < SeverityRank(y.severity)
  \/ /\ SeverityRank(x.severity) = SeverityRank(y.severity)
     /\ \/ Len(x.affectedPages) > Len(y.affectedPages)
        \/ /\ Len(x.affectedPages) = Len(y.affectedPages)
           /\ CategoryRank(x.category) <= CategoryRank(y.category)

\* the record comes from at least one page and every scored check produced a
\* usable result for every page
FullyAudited(r) ==
  /\ r.rawData # <<>>
  /\ \A i \in DOMAIN r.rawData :
       ScoredCategories(r.rawData[i]) = Checks \ {"seoElements"}

Min(a, b) == IF a < b THEN a ELSE b
Max(a, b) == IF a > b THEN a ELSE b

\* C14: a finished page audit whose browser launched and whose every check
\* errored has returned a page result flagged unauditable with a null
\* composite score.
C14_AllErroredIsUnauditable ==
  \A i \in Pages :
    (/\ Finished(i)
     /\ ~LaunchFailed(i)
     /\ ChecksFor(options.auditType) # {}
     /\ errored[i] = ChecksFor(options.auditType)) =>
      /\ pagePc[i] = "resolved"
      /\ IF {"unauditable", "compositeScore"} \subseteq DOMAIN pageAudits[i]
         THEN pageAudits[i].unauditable /\ pageAudits[i].compositeScore = Undefined
         ELSE FALSE

\* C16: an audit record whose pages were all fully audited holds an issue of a
\* category if and only if the check of that category produced, for one of the
\* record's pages, a score below the category's threshold (performance 70,
\* crawlability 80, schema 60, mobile 75).
C16_IssueIffBelowThreshold ==
  \A k \in DOMAIN records :
    LET r == records[k] IN
    \A c \in Checks \ {"seoElements"} :
      FullyAudited(r) =>
      ((\E a \in DOMAIN r.issues : r.issues[a].category = IssueCategory(c))
         <=> (\E i \in DOMAIN r.rawData : BelowThreshold(r.rawData[i], c)))

\* C17: the issues of an audit record are in order of severity, then of the
\* number of affected pages descending, then of category name.
C17_IssuesOrdered ==
  \A k \in DOMAIN records :
    LET issues == records[k].issues IN
    \A a, b \in DOMAIN issues : a < b => MayPrecede(issues[a], issues[b])

\* C17 witness: a record holds two issues, of different severity.
C17_Witness ==
  \E k \in DOMAIN records :
    /\ Len(records[k].issues) = 2
    /\ records[k].issues[1].severity # records[k].issues[2].severity

\* C18: an audit record whose pages were all fully audited holds exactly one
\* recommendation for each category that has an issue and none for a category
\* that has none.
C18_OneRecommendationPerIssueCategory ==
  \A k \in DOMAIN records :
    LET r == records[k] IN
    \A cat \in IssueCategories :
      FullyAudited(r) =>
      Cardinality({b \in DOMAIN r.recommendations : r.recommendations[b].category = cat})
        = IF \E a \in DOMAIN r.issues : r.issues[a].category = cat THEN 1 ELSE 0

\* C19: the schema score of a page is 30 + 25 + 20 + 15 + 10 for the schema
\* kinds present, capped at 100, minus 2 for each malformed JSON-LD block of
\* the page, and not below 0.
C19_SchemaScoreFormula ==
  \A i \in Pages :
    LET schema == pageAudits[i].results.schemaMarkup
        sum == (IF schema.localBusinessSchema THEN 30 ELSE 0)
               + (IF schema.dentistSchema THEN 25 ELSE 0)
               + (IF schema.faqSchema THEN 20 ELSE 0)
               + (IF schema.reviewSchema THEN 15 ELSE 0)
               + (IF schema.organizationSchema THEN 10 ELSE 0)
    IN schema.state = "value" =>
         schema.score = Max(0, Min(100, sum) - 2 * Site(pageAudits[i].url).malformedBlocks)

\* a 2xx HTTP status
Is2xx(status) == status >= 200 /\ status <= 299

\* C12: auditPage has not closed the browser and returned or thrown while one
\* of the checks it started is still in flight.
C12_ComposesAfterAllSettled ==
  pagePc[1] \in {"resolved", "rejected"} =>
    \A c \in Checks : checkPc[c] \in {"idle"} \cup SettledPcs

\* C13: when auditPage returns, each of its checks that evaluates in the page
\* has evaluated the page it navigated to, and the result is the one the
\* checks give when each runs alone.
C13_ChecksDoNotInterfere ==
  pagePc[1] = "resolved" =>
    /\ \A c \in EvaluatingChecks \cap ChecksFor(options.auditType) :
         evaluated[c] = options.pages[1]
    /\ pageAudits[1].results
         = PageResults(options.pages[1], options.auditType, errored[1])

\* C20: the crawlability result of a returned page audit has the score 70,
\* plus 20 when robots.txt was fetched with a 2xx status, plus 10 when
\* sitemap.xml was, at most 100; the flag of a resource is false when its
\* fetch failed and the flag of the other resource is what its own fetch
\* gives; and the check never rejects.
C20_CrawlabilityScore ==
  LET url == options.pages[1]
      robotsTxt == checkPc["crawlability"] # "caughtRobots"
                   /\ Is2xx(Site(url).robotsStatus)
      sitemapValid == checkPc["crawlability"] # "caughtSitemap"
                      /\ Is2xx(Site(url).sitemapStatus)
  IN (WellFormed(url) /\ "crawlability" \in ChecksFor(options.auditType)) =>
       /\ checkPc["crawlability"] # "rejected"
       /\ pagePc[1] = "resolved" =>
            LET crawlability == pageAudits[1].results.crawlability IN
            /\ crawlability.robotsTxt = robotsTxt
            /\ crawlability.sitemapValid = sitemapValid
            /\ crawlability.score
                 = Min(100, 70 + (IF robotsTxt THEN 20 ELSE 0)
                               + (IF sitemapValid THEN 10 ELSE 0))

\* the number of true values among the four mobile signals
SatisfiedSignals(m) ==
  Cardinality({k \in {"viewportConfiguration", "responsiveDesign",
                      "touchTargetSize", "mobileFirstIndex"} : m[k]})

ScoreInRange(x) == x = Undefined \/ (x >= 0 /\ x <= 100)

\* the check scores of a page result
CheckScores(results) ==
  {results.siteSpeed.desktop, results.siteSpeed.mobile, results.crawlability.score,
   results.schemaMarkup.score, results.mobileOptimization.score}

\* C22: every check score of every page audit, and the score of every stored
\* audit record, lies in [0,100], whatever the audit type and whichever checks
\* failed or were skipped.
C22_ScoresInRange ==
  /\ \A i \in DOMAIN pageAudits :
       \A x \in CheckScores(pageAudits[i].results) : ScoreInRange(x)
  /\ \A k \in DOMAIN records :
       /\ records[k].score >= 0
       /\ records[k].score <= 100

\* C22 witness: a record of a comprehensive audit whose first page lost its
\* page-speed check, stored with a positive score.
C22_Witness ==
  \E k \in DOMAIN records :
    /\ records[k].auditType = "comprehensive"
    /\ Len(records[k].rawData) >= 1
    /\ records[k].rawData[1].results.siteSpeed.state = "null"
    /\ records[k].rawData[1].results.crawlability.state = "value"
    /\ records[k].score > 0

\* the checks an audit type selects
SelectedChecks(auditType) ==
  CASE auditType = "comprehensive" ->
         {"siteSpeed", "seoElements", "schemaMarkup", "crawlability", "mobileOptimization"}
    [] auditType = "performance" -> {"siteSpeed"}
    [] auditType = "seo" -> {"seoElements", "schemaMarkup"}
    [] auditType = "basic" -> {}

\* the checks that contributed to a page result
Contributed(results) == {c \in Checks : results[c].state # "absent"}

\* C23: a page audit whose browser launched has started exactly the checks its
\* audit type selects once it goes on to close the browser, and a returned
\* page audit holds the results of exactly these checks ('basic': of none).
C23_ChecksByAuditType ==
  /\ (pagePc[1] \in {"closing", "resolved", "rejected"} /\ ~LaunchFailed(1)) =>
       {c \in Checks : checkPc[c] # "idle"} = SelectedChecks(options.auditType)
  /\ pagePc[1] = "resolved" =>
       Contributed(pageAudits[1].results) = SelectedChecks(options.auditType)

\* C23 witness: a returned 'seo' page audit with its two checks fulfilled.
C23_Witness ==
  /\ pagePc[1] = "resolved"
  /\ options.auditType = "seo"
  /\ checkPc["seoElements"] = "fulfilled"
  /\ checkPc["schemaMarkup"] = "fulfilled"
  /\ pageAudits[1].results.seoElements.state = "value"

\* C24: no queued audit job has an empty page list; a job queued for a request
\* that supplied no pages has the clinic's homepage as its single page, and a
\* job queued for a request that supplied pages has exactly these pages.
C24_NeverQueuesEmptyPageList ==
  /\ \A j \in DOMAIN jobQueue : Len(jobQueue[j].pages) > 0
  /\ \A k \in DOMAIN httpLog :
       httpLog[k].outcome = "queued" =>
         LET sent == httpLog[k].request.pages
             job == jobQueue[httpLog[k].jobId]
         IN IF sent.kind = "array" /\ Len(sent.items) > 0
            THEN job.pages = sent.items
            ELSE job.pages = <<HomepageOf(httpLog[k].request.id)>>

\* C24 witness: a job was queued for a request whose pages were an empty array.
C24_Witness ==
  \E k \in DOMAIN httpLog :
    /\ httpLog[k].outcome = "queued"
    /\ httpLog[k].request.pages = [kind |-> "array", items |-> <<>>]
    /\ jobQueue[httpLog[k].jobId].pages = <<HomepageOf(httpLog[k].request.id)>>

\* C25: the competitors table never holds two rows with the same clinic and
\* domain, also when two discoverCompetitors calls of the clinic interleave.
C25_NoDuplicateCompetitor ==
  \A a, b \in DOMAIN competitorRows :
    (/\ competitorRows[a].clinicId = competitorRows[b].clinicId
     /\ competitorRows[a].domain = competitorRows[b].domain) => a = b

\* C26: in each window of the rate-limit key, checkRateLimit has returned true
\* for at most RateLimit (10) calls, whatever the interleaving of the callers,
\* and updateCompetitorMetrics has performed at most as many metric updates.
C26_RateLimitHolds ==
  \A w \in 1 .. MaxWindows :
    /\ granted[w] <= RateLimit
    /\ metricUpdates[w] <= RateLimit

\* C26 witness: ten calls of the current window were allowed, more than ten
\* calls incremented its counter, and every call has returned: a call over the
\* limit was refused.
C26_Witness ==
  /\ granted[redisWindow] = RateLimit
  /\ redisCount > RateLimit
  /\ \A p \in Callers : ratePc[p] = "idle"

\* C27: the current context is null or the very object the contexts map holds
\* under its name.
C27_CurrentContextIsListed ==
  currentContext # 0 => contexts[heap[currentContext].name] = currentContext

\* C30: the history of every AIContext holds at most 50 entries, and they are
\* the entries most recently added to it, in the order they were added.
C30_HistoryBounded ==
  \A o \in DOMAIN heap :
    /\ Len(heap[o].history) <= HistoryLimit
    /\ LET added == Len(heap[o].log)
           kept == Min(added, HistoryLimit)
       IN heap[o].history = [k \in 1 .. kept |-> heap[o].log[added - kept + k]]
    /\ \A a \in 1 .. Len(heap[o].history) - 1 :
         heap[o].history[a] < heap[o].history[a + 1]

\* C30 witness: a context holds 50 entries after addToHistory dropped its
\* oldest entry.
C30_Witness ==
  \E o \in DOMAIN heap :
    /\ Len(heap[o].log) > HistoryLimit
    /\ Len(heap[o].history) = HistoryLimit
    /\ heap[o].history[HistoryLimit] = shellClock

\* processTasks has returned with an empty queue, having executed the queued
\* tasks, each once, in the order they were queued
ProcessedAllInOrder ==
  /\ coordPc = "done"
  /\ taskQueue = <<>>
  /\ executedTasks = enqueuedTasks

Connected == {x \in SocketIds : socketState[x] = "connected"}

\* C29: the active metrics timers are those of the connected clients, one
\* each: there are as many active timers as connected clients.
C29_OneTimerPerClient ==
  /\ intervals = Connected
  /\ Cardinality(intervals) = Cardinality(Connected)

\* C29 witness: one client has disconnected after its timer fired and
\* another is connected.
C29_Witness ==
  \E x, y \in SocketIds :
    /\ socketState[x] = "disconnected"
    /\ emitted[x] > 1
    /\ socketState[y] = "connected"
    /\ y \in intervals

====
